---------------------------- MODULE Spec2Model ----------------------------
(***************************************************************************)
(* A model of gitautosync (src/gitautosync/__init__.py): one run of        *)
(* GitAutoSync.pull_from_remote.  The run is a sequential program that     *)
(* executes git commands one after the other; every command is an          *)
(* external process whose exit status the program does not control, so     *)
(* each command's exit status is drawn from ExitCodes.  The log records    *)
(* every command the run executed, in order, with the step of the run it   *)
(* belongs to and its exit status.                                         *)
(***************************************************************************)
EXTENDS Integers, Sequences, FiniteSets, TLC

VARIABLES
    pc,             \* the position of the run in the code
    repo_exists,    \* os.path.exists(self.repo_dir) when the run starts
    log,            \* the commands executed so far, with their exit status
    deleted_files,  \* _reset_deleted_files: the list parsed from git status
    idx,            \* _reset_deleted_files: position of the for loop
    output,         \* repo_is_dirty: the porcelain output read (a local)
    dirty,          \* the value repo_is_dirty returned to _update_repo
    ret,            \* the caller _make_commit returns to
    err,            \* the CalledProcessError that left the run, if any
    tree,           \* the repository the git commands act on
    proc            \* execute_cmd: the pipe of the child, buf, c_last, the
                    \* lines yielded after the echo line, the exit status

vars == <<pc, repo_exists, log, deleted_files, idx, output, dirty, ret, err, tree, proc>>

-----------------------------------------------------------------------------
(* Bounds of the model *)

\* longest list of deleted paths git status reports
MaxDeleted == 2
\* most entries of a porcelain status output
MaxEntries == 2

\* paths of the working tree, in the order git status lists them; the run
\* never looks inside a path, so one list of each length stands for all
PathList == <<"a", "b", "c", "d">>

\* most bytes a command writes to its pipe
MaxOutput == 3

\* exit statuses of a git process: success, 1 (merge conflict, benign fetch
\* failure), 2 (any other failure), 128 (git's fatal status)
ExitCodes == {0, 1, 2, 128}

NoError == [cmd |-> "none", arg |-> "", rc |-> 0]

\* the bytes of a pipe: a letter, the two line terminators, and a byte that
\* is not valid UTF-8
Bytes == {"a", "\r", "\n", "xFF"}

\* execute_cmd before Popen: nothing written, nothing read
NoProc == [written |-> <<>>, stdout |-> <<>>, buf |-> <<>>, c_last |-> "",
           lines |-> <<>>, ret |-> 0]

-----------------------------------------------------------------------------
(* Sequences *)

\* the sequences over S of length at most n
SeqUpTo(S, n) == UNION {[1..k -> S] : k \in 0..n}

\* the lists of deleted paths git status can report: no path twice
DeletedLists ==
    {SubSeq(PathList, 1, n) : n \in {m \in 0..MaxDeleted : m <= Len(PathList)}}

RECURSIVE Flatten(_)
Flatten(ss) == IF ss = <<>> THEN <<>> ELSE Head(ss) \o Flatten(Tail(ss))

-----------------------------------------------------------------------------
(* git status --porcelain: one line "XY path" per entry *)

\* XY codes: X is the status of the index, Y of the working tree
TrackedCodes == {<<" ", "M">>, <<"M", " ">>, <<"M", "M">>, <<"A", "M">>,
                 <<" ", "D">>, <<"D", " ">>}
UntrackedCode == <<"?", "?">>
StatusCodes == TrackedCodes \cup {UntrackedCode}

\* the text of one entry, a sequence of characters
EntryLine(xy) == xy \o <<" ", "f", "\n">>

\* the outputs of git status --porcelain with at most MaxEntries entries
PorcelainEntries == SeqUpTo(StatusCodes, MaxEntries)
PorcelainText(entries) == Flatten([k \in 1..Len(entries) |-> EntryLine(entries[k])])

\* \s of the regular expression
IsSpace(c) == c \in {" ", "\n", "\t", "\r"}

\* ^ under re.MULTILINE: the start of the text or just after a newline
LineStart(s, i) == i = 1 \/ (i - 1 <= Len(s) /\ s[i - 1] = "\n")

\* MODIFIED_FILE_REGEX.search(s) is not None, for ^\s*M\s+(.*)$ : from a line
\* start, a run of whitespace, the letter M, at least one whitespace; the
\* rest, (.*)$, matches up to the end of a line whatever follows
MODIFIED_FILE_REGEX(s) ==
    \E i \in 1..Len(s) : \E j \in i..Len(s) :
        /\ LineStart(s, i)
        /\ \A k \in i..(j - 1) : IsSpace(s[k])
        /\ s[j] = "M"
        /\ j + 1 <= Len(s)
        /\ IsSpace(s[j + 1])

\* a slip that takes any status output for a dirty tree
repo_is_dirty_any(s) == s /= <<>>

\* repo_is_dirty's return value for the porcelain output s
repo_is_dirty(s) == MODIFIED_FILE_REGEX(s)

-----------------------------------------------------------------------------
(* git, the external tool.  With tree = "any" nothing is assumed about the   *)
(* repository and every command may exit with any status.  The other values *)
(* of tree follow one file that is modified locally and deleted on the      *)
(* remote branch, as the comment in _pull_and_resolve_conflicts tells it:   *)
(*   "uncommitted"  the modification is in the working tree or the index;   *)
(*   "committed"    it is committed on the local branch (the WIP commit);   *)
(*   "conflicted"   the merge stopped with CONFLICT (modify/delete) and     *)
(*                  left the version of HEAD in the working tree;           *)
(*   "merged"       a commit concluded the merge, keeping the file.         *)
(* In these runs every other command succeeds, and a deleted path is found  *)
(* upstream or not.                                                         *)
(* Three more kinds of repository, each with nothing else changed in it:    *)
(*   "deleted-unstaged"  files are deleted in the working tree (rm);        *)
(*   "deleted-staged"    files are deleted in the index too (git rm);       *)
(*   "disjoint"          a tracked file is modified locally, the remote     *)
(*                       branch changes other files;                        *)
(*   "disjoint-saved"    the same after a commit of the local change;       *)
(*   "synced"            a clean tree on which a run has completed, the     *)
(*                       remote branch unchanged since.                     *)

TreeStates == {"uncommitted", "committed", "conflicted", "merged"}

DeletionStates == {"deleted-unstaged", "deleted-staged"}
DisjointStates == {"disjoint", "disjoint-saved"}

\* the exit statuses git can answer command cmd with.  The merge of the
\* remote deletion into a committed modification stops with a conflict
\* (status 1); once a commit has concluded it, the merge has nothing left to
\* do (status 0); over an uncommitted modification git refuses to merge:
\* status 1 when the merge would be a fast-forward, status 2 when not
\* In the other repositories: git checkout -- path restores a file deleted
\* in the working tree and exits 1 for one deleted in the index too ("pathspec
\* did not match"); git refuses a merge that is no fast-forward while the
\* index holds a change (status 2); git commit exits 1 with nothing to commit
GitExits(cmd) ==
    IF tree = "any" THEN ExitCodes
    ELSE CASE cmd = "merge" ->
                 (CASE tree = "uncommitted" -> {1, 2}
                    [] tree = "committed" -> {1}
                    [] tree = "conflicted" -> {128}
                    [] tree = "merged" -> {0}
                    [] tree = "deleted-unstaged" -> {0}
                    [] tree = "deleted-staged" -> {0, 2}
                    [] tree = "disjoint" -> {0, 2}
                    [] tree = "disjoint-saved" -> {0}
                    [] tree = "synced" -> {0})
           [] cmd = "cat-file" -> {0, 128}
           [] cmd = "restore" /\ tree = "deleted-staged" -> {1}
           [] cmd = "commit" /\ tree = "synced" -> {0, 1}
           [] OTHER -> {0}

\* the repository after command cmd has exited with rc
GitEffect(cmd, rc) ==
    CASE tree = "uncommitted" /\ cmd = "commit" /\ rc = 0 -> "committed"
      [] tree = "committed" /\ cmd = "merge" /\ rc = 1 -> "conflicted"
      [] tree = "conflicted" /\ cmd = "commit" /\ rc = 0 -> "merged"
      [] tree = "disjoint" /\ cmd = "commit" /\ rc = 0 -> "disjoint-saved"
      [] OTHER -> tree

\* the status letters git status --porcelain gives a file with a staged
\* modification, an unstaged one, or both
ModifiedCodes == {<<" ", "M">>, <<"M", " ">>, <<"M", "M">>}

\* the porcelain outputs git can answer with: while the modification of the
\* file is not committed, the file has an entry
\* in the other repositories the entries are the files still deleted, the
\* modified file, and untracked files
GitPorcelain(entries) ==
    /\ tree = "uncommitted" => \E k \in 1..Len(entries) : entries[k] \in ModifiedCodes
    /\ tree = "deleted-unstaged" =>
           \A k \in 1..Len(entries) : entries[k] \in {<<" ", "D">>, UntrackedCode}
    /\ tree = "deleted-staged" =>
           \A k \in 1..Len(entries) : entries[k] \in {<<"D", " ">>, UntrackedCode}
    /\ tree = "disjoint" =>
           /\ \E k \in 1..Len(entries) : entries[k] \in ModifiedCodes
           /\ \A k \in 1..Len(entries) : entries[k] \in ModifiedCodes \cup {UntrackedCode}
    /\ tree = "synced" => \A k \in 1..Len(entries) : entries[k] = UntrackedCode

\* the lists of deleted paths git status can answer with
GitDeleted(files) ==
    /\ tree \in DeletionStates => Len(files) >= 1
    /\ tree \in DisjointStates \cup {"synced"} => files = <<>>

\* the working tree holds the locally modified version of the file: no
\* command of the run removes or overwrites it (a refused merge changes
\* nothing, a conflicting one leaves the version of HEAD in the tree)
TreeHasLocalVersion == tree \in TreeStates

-----------------------------------------------------------------------------
(* execute_cmd and the except clauses *)

\* the command is run by git, which answers with an exit status, and recorded
Run(step, cmd, arg, rc) ==
    /\ rc \in GitExits(cmd)
    /\ tree' = GitEffect(cmd, rc)
    /\ log' = Append(log, [step |-> step, cmd |-> cmd, arg |-> arg, rc |-> rc])

\* a CalledProcessError no handler catches leaves pull_from_remote
Abort(cmd, arg, rc) ==
    /\ pc' = "failed"
    /\ err' = [cmd |-> cmd, arg |-> arg, rc |-> rc]

\* slips of the handlers: the wrong status, or every status
FetchToleratedNever(rc) == FALSE
ResetSwallowsOne(rc) == rc = 1
MergeConflictAny(rc) == rc /= 0
MergeConflictNever(rc) == FALSE
RaisesAboveOne(rc) == rc > 1

\* execute_cmd raises CalledProcessError iff the process exits nonzero
Raises(rc) == rc /= 0

\* _reset_deleted_files' except clause: "if git_err.returncode != 128: raise"
ResetSwallows(rc) == rc = 128

\* _raise_error_if_git_file_not_exists' except clause:
\* "if git_err.returncode != 1: raise"
FetchTolerated(rc) == rc = 1

\* _pull_and_resolve_conflicts' except clause: "if e.returncode == 1"
MergeConflict(rc) == rc = 1

Init ==
    /\ pc = "start"
    /\ repo_exists \in BOOLEAN
    /\ log = <<>>
    /\ deleted_files = <<>>
    /\ idx = 0
    /\ output = <<>>
    /\ dirty = FALSE
    /\ ret = "none"
    /\ err = NoError
    /\ tree = "any"
    /\ proc = NoProc

-----------------------------------------------------------------------------
(* pull_from_remote and _initialize_repo *)

\* a slip that takes the wrong branch of the test
DispatchInverted(exists) == IF exists THEN "clone" ELSE "status"

\* "if not os.path.exists(self.repo_dir)": _initialize_repo, else _update_repo
Dispatch(exists) == IF ~exists THEN "clone" ELSE "status"

pull_from_remote ==
    /\ pc = "start"
    /\ pc' = Dispatch(repo_exists)
    /\ UNCHANGED <<proc, repo_exists, log, deleted_files, idx, output, dirty, ret, err, tree>>

\* git clone <url> <dir>
InitClone ==
    /\ pc = "clone"
    /\ \E rc \in ExitCodes :
        /\ Run("init", "clone", "", rc)
        /\ IF Raises(rc) THEN Abort("clone", "", rc)
           ELSE pc' = "init_checkout" /\ err' = err
    /\ UNCHANGED <<proc, repo_exists, deleted_files, idx, output, dirty, ret>>

\* git checkout <branch>
InitCheckout ==
    /\ pc = "init_checkout"
    /\ \E rc \in ExitCodes :
        /\ Run("init", "checkout", "branch", rc)
        /\ IF Raises(rc) THEN Abort("checkout", "branch", rc)
           ELSE pc' = "done" /\ err' = err
    /\ UNCHANGED <<proc, repo_exists, deleted_files, idx, output, dirty, ret>>

-----------------------------------------------------------------------------
(* _update_repo, step 1: _reset_deleted_files *)

\* a slip that leaves the loop with the dirtiness the run already holds,
\* without a new status
NextFileStale ==
    IF idx < Len(deleted_files)
    THEN idx' = idx + 1 /\ pc' = "rd_fetch"
    ELSE idx' = idx /\ pc' = IF dirty THEN "save_checkout" ELSE "pull_checkout"

\* the for loop moves to the next deleted path, or the function returns to
\* _update_repo, which calls repo_is_dirty
NextFile ==
    IF idx < Len(deleted_files)
    THEN idx' = idx + 1 /\ pc' = "rd_fetch"
    ELSE idx' = idx /\ pc' = "dirty_status"

\* subprocess.check_output(['git', 'status']) and DELETED_FILE_REGEX.findall:
\* the list of the paths git status reports as deleted
ResetStatus ==
    /\ pc = "status"
    /\ \E rc \in ExitCodes, files \in DeletedLists :
        /\ Run("reset", "status", "", rc)
        /\ GitDeleted(files)
        /\ IF Raises(rc)
           THEN /\ Abort("status", "", rc)
                /\ UNCHANGED <<deleted_files, idx>>
           ELSE /\ deleted_files' = files
                /\ err' = err
                /\ IF Len(files) > 0
                   THEN idx' = 1 /\ pc' = "rd_fetch"
                   ELSE idx' = 0 /\ pc' = "dirty_status"
    /\ UNCHANGED <<proc, repo_exists, output, dirty, ret>>

\* _raise_error_if_git_file_not_exists: git fetch.  Its own handler lets
\* status 1 pass; any other error is re-raised into _reset_deleted_files'
\* handler, which catches every CalledProcessError of the try block
ResetFetch ==
    /\ pc = "rd_fetch"
    /\ \E rc \in ExitCodes :
        /\ Run("reset", "fetch", deleted_files[idx], rc)
        /\ IF ~Raises(rc) \/ FetchTolerated(rc)
           THEN pc' = "rd_catfile" /\ UNCHANGED <<idx, err>>
           ELSE IF ResetSwallows(rc)
                THEN NextFile /\ err' = err
                ELSE Abort("fetch", deleted_files[idx], rc) /\ idx' = idx
    /\ UNCHANGED <<proc, repo_exists, deleted_files, output, dirty, ret>>

\* _raise_error_if_git_file_not_exists: git cat-file -e origin/<branch>:<path>
ResetCatFile ==
    /\ pc = "rd_catfile"
    /\ \E rc \in ExitCodes :
        /\ Run("reset", "cat-file", deleted_files[idx], rc)
        /\ IF ~Raises(rc)
           THEN pc' = "rd_restore" /\ UNCHANGED <<idx, err>>
           ELSE IF ResetSwallows(rc)
                THEN NextFile /\ err' = err
                ELSE Abort("cat-file", deleted_files[idx], rc) /\ idx' = idx
    /\ UNCHANGED <<proc, repo_exists, deleted_files, output, dirty, ret>>

\* a slip that runs the restore again when its failure is swallowed
ResetRestoreRetry ==
    /\ pc = "rd_restore"
    /\ \E rc \in ExitCodes :
        /\ Run("reset", "restore", deleted_files[idx], rc)
        /\ IF ~Raises(rc) THEN NextFile /\ err' = err
           ELSE IF ResetSwallows(rc)
           THEN pc' = "rd_restore" /\ UNCHANGED <<idx, err>>
           ELSE Abort("restore", deleted_files[idx], rc) /\ idx' = idx
    /\ UNCHANGED <<proc, repo_exists, deleted_files, output, dirty, ret>>

\* git checkout -- <path>, inside the same try block
ResetRestore ==
    /\ pc = "rd_restore"
    /\ \E rc \in ExitCodes :
        /\ Run("reset", "restore", deleted_files[idx], rc)
        /\ IF ~Raises(rc) \/ ResetSwallows(rc)
           THEN NextFile /\ err' = err
           ELSE Abort("restore", deleted_files[idx], rc) /\ idx' = idx
    /\ UNCHANGED <<proc, repo_exists, deleted_files, output, dirty, ret>>

-----------------------------------------------------------------------------
(* _update_repo, step 2: repo_is_dirty and _save_local_changes *)

\* repo_is_dirty: subprocess.check_output(['git', 'status', '--porcelain'])
DirtyStatus ==
    /\ pc = "dirty_status"
    /\ \E rc \in ExitCodes, entries \in PorcelainEntries :
        /\ Run("dirty", "status-porcelain", "", rc)
        /\ GitPorcelain(entries)
        /\ IF Raises(rc)
           THEN Abort("status-porcelain", "", rc) /\ output' = output
           ELSE pc' = "dirty_search" /\ output' = PorcelainText(entries) /\ err' = err
    /\ UNCHANGED <<proc, repo_exists, deleted_files, idx, dirty, ret>>

\* slips of the branch: the save is never made, or always made
DirtyBranchNever(d) == "pull_checkout"
DirtyBranchAlways(d) == "save_checkout"

\* _update_repo's branch on the value repo_is_dirty returns
DirtyBranch(d) == IF d THEN "save_checkout" ELSE "pull_checkout"

\* repo_is_dirty returns the result of the search; its local goes away
DirtySearch ==
    /\ pc = "dirty_search"
    /\ dirty' = repo_is_dirty(output)
    /\ output' = <<>>
    /\ pc' = DirtyBranch(dirty')
    /\ UNCHANGED <<proc, repo_exists, log, deleted_files, idx, ret, err, tree>>

\* _save_local_changes: git checkout <branch>, then _make_commit
SaveCheckout ==
    /\ pc = "save_checkout"
    /\ \E rc \in ExitCodes :
        /\ Run("save", "checkout", "branch", rc)
        /\ IF Raises(rc)
           THEN Abort("checkout", "branch", rc) /\ ret' = ret
           ELSE pc' = "add" /\ ret' = "save" /\ err' = err
    /\ UNCHANGED <<proc, repo_exists, deleted_files, idx, output, dirty>>

-----------------------------------------------------------------------------
(* _make_commit, called by _save_local_changes and by the merge handler *)

\* a slip that goes on to the next command whatever the exit status
CommitStepNoRaise(at, cmd, arg, next) ==
    /\ pc = at
    /\ \E rc \in ExitCodes :
        /\ Run(ret, cmd, arg, rc)
        /\ pc' = next /\ err' = err
    /\ UNCHANGED <<proc, repo_exists, deleted_files, idx, output, dirty, ret>>

\* one command of _make_commit: on success the run moves to next
CommitStep(at, cmd, arg, next) ==
    /\ pc = at
    /\ \E rc \in ExitCodes :
        /\ Run(ret, cmd, arg, rc)
        /\ IF Raises(rc)
           THEN Abort(cmd, arg, rc)
           ELSE pc' = next /\ err' = err
    /\ UNCHANGED <<proc, repo_exists, deleted_files, idx, output, dirty, ret>>

\* a slip that turns the one retry into a loop: back to the first merge
AfterCommitLoop == IF ret = "save" THEN "pull_checkout" ELSE "merge"

\* where _make_commit returns to: _save_local_changes returns to
\* _update_repo, which calls _pull_and_resolve_conflicts; the merge handler
\* runs the merge again
AfterCommit == IF ret = "save" THEN "pull_checkout" ELSE "merge2"

CommitAdd == CommitStep("add", "add", "-A", "config_email")
CommitConfigEmail == CommitStep("config_email", "config", "user.email", "config_name")
CommitConfigName == CommitStep("config_name", "config", "user.name", "commit")
CommitCommit == CommitStep("commit", "commit", "WIP", AfterCommit)

-----------------------------------------------------------------------------
(* _update_repo, step 3: _pull_and_resolve_conflicts *)

PullCheckout ==
    /\ pc = "pull_checkout"
    /\ \E rc \in ExitCodes :
        /\ Run("pull", "checkout", "branch", rc)
        /\ IF Raises(rc) THEN Abort("checkout", "branch", rc)
           ELSE pc' = "pull_fetch" /\ err' = err
    /\ UNCHANGED <<proc, repo_exists, deleted_files, idx, output, dirty, ret>>

\* a slip that lets status 1 pass, as the fetch of the existence check does
PullFetchTolerant ==
    /\ pc = "pull_fetch"
    /\ \E rc \in ExitCodes :
        /\ Run("pull", "fetch", "", rc)
        /\ IF Raises(rc) /\ ~FetchTolerated(rc) THEN Abort("fetch", "", rc)
           ELSE pc' = "merge" /\ err' = err
    /\ UNCHANGED <<proc, repo_exists, deleted_files, idx, output, dirty, ret>>

PullFetch ==
    /\ pc = "pull_fetch"
    /\ \E rc \in ExitCodes :
        /\ Run("pull", "fetch", "", rc)
        /\ IF Raises(rc) THEN Abort("fetch", "", rc)
           ELSE pc' = "merge" /\ err' = err
    /\ UNCHANGED <<proc, repo_exists, deleted_files, idx, output, dirty, ret>>

\* git merge -Xours origin/<branch>, inside the try block
PullMerge ==
    /\ pc = "merge"
    /\ \E rc \in ExitCodes :
        /\ Run("pull", "merge", "origin/branch", rc)
        /\ IF ~Raises(rc)
           THEN pc' = "done" /\ UNCHANGED <<ret, err>>
           ELSE IF MergeConflict(rc)
                THEN pc' = "add" /\ ret' = "remedy" /\ err' = err
                ELSE Abort("merge", "origin/branch", rc) /\ ret' = ret
    /\ UNCHANGED <<proc, repo_exists, deleted_files, idx, output, dirty>>

\* the merge run again by the handler; an error raised inside an except
\* clause is not caught by that try statement
PullMergeAgain ==
    /\ pc = "merge2"
    /\ \E rc \in ExitCodes :
        /\ Run("pull", "merge", "origin/branch", rc)
        /\ IF Raises(rc) THEN Abort("merge", "origin/branch", rc)
           ELSE pc' = "done" /\ err' = err
    /\ UNCHANGED <<proc, repo_exists, deleted_files, idx, output, dirty, ret>>

-----------------------------------------------------------------------------

\* pull_from_remote on an existing directory: _update_repo
NextUpdate ==
    \/ pull_from_remote
    \/ ResetStatus
    \/ ResetFetch
    \/ ResetCatFile
    \/ ResetRestore
    \/ DirtyStatus
    \/ DirtySearch
    \/ SaveCheckout
    \/ CommitAdd
    \/ CommitConfigEmail
    \/ CommitConfigName
    \/ CommitCommit
    \/ PullCheckout
    \/ PullFetch
    \/ PullMerge
    \/ PullMergeAgain

Next ==
    \/ InitClone
    \/ InitCheckout
    \/ NextUpdate

Spec == Init /\ [][Next]_vars

\* the runs on an existing directory in which a file is modified locally and
\* deleted on the remote branch
ModDelInit ==
    /\ pc = "start"
    /\ repo_exists = TRUE
    /\ log = <<>>
    /\ deleted_files = <<>>
    /\ idx = 0
    /\ output = <<>>
    /\ dirty = FALSE
    /\ ret = "none"
    /\ err = NoError
    /\ tree = "uncommitted"
    /\ proc = NoProc

ModDelSpec == ModDelInit /\ [][NextUpdate]_vars

\* the runs on an existing directory whose repository is one of those git's
\* answers are known for
RepoInit ==
    /\ pc = "start"
    /\ repo_exists = TRUE
    /\ log = <<>>
    /\ deleted_files = <<>>
    /\ idx = 0
    /\ output = <<>>
    /\ dirty = FALSE
    /\ ret = "none"
    /\ err = NoError
    /\ tree \in {"uncommitted", "deleted-unstaged", "deleted-staged", "disjoint", "synced"}
    /\ proc = NoProc

RepoSpec == RepoInit /\ [][NextUpdate]_vars

-----------------------------------------------------------------------------
(* execute_cmd *)

\* bytes.decode('utf8', 'replace'), byte by byte: a byte that is not valid
\* UTF-8 becomes U+FFFD
Utf8Replace(c) == IF c = "xFF" THEN "uFFFD" ELSE c

\* flush(): the text of the bytes of buf
flush(buf) == [i \in 1..Len(buf) |-> Utf8Replace(buf[i])]

\* one turn of "for c in iter(partial(proc.stdout.read, 1), b'')"
ExecRead ==
    /\ pc = "exec_read"
    /\ proc.stdout /= <<>>
    /\ LET c == Head(proc.stdout)
           early == proc.c_last = "\r" /\ proc.buf /= <<>> /\ c /= "\n"
           lines1 == IF early THEN Append(proc.lines, flush(proc.buf)) ELSE proc.lines
           buf1 == Append(IF early THEN <<>> ELSE proc.buf, c)
       IN  proc' = [proc EXCEPT !.stdout = Tail(proc.stdout),
                                !.lines = IF c = "\n" THEN Append(lines1, flush(buf1))
                                          ELSE lines1,
                                !.buf = IF c = "\n" THEN <<>> ELSE buf1,
                                !.c_last = c]
    /\ UNCHANGED <<pc, repo_exists, log, deleted_files, idx, output, dirty, ret, err, tree>>

\* read returns b'': the loop ends and the finally clause waits for the
\* child; a nonzero status raises CalledProcessError
ExecWait ==
    /\ pc = "exec_read"
    /\ proc.stdout = <<>>
    /\ \E rc \in ExitCodes :
        /\ proc' = [proc EXCEPT !.ret = rc]
        /\ pc' = IF Raises(rc) THEN "exec_raised" ELSE "exec_done"
    /\ UNCHANGED <<repo_exists, log, deleted_files, idx, output, dirty, ret, err, tree>>

\* one command, which writes any bytes to its pipe
ExecInit ==
    /\ pc = "exec_read"
    /\ repo_exists = TRUE
    /\ log = <<>>
    /\ deleted_files = <<>>
    /\ idx = 0
    /\ output = <<>>
    /\ dirty = FALSE
    /\ ret = "none"
    /\ err = NoError
    /\ tree = "any"
    /\ \E w \in SeqUpTo(Bytes, MaxOutput) :
           proc = [NoProc EXCEPT !.written = w, !.stdout = w]

ExecNext == ExecRead \/ ExecWait

ExecSpec == ExecInit /\ [][ExecNext]_vars

\* every external command terminates and the caller consumes the generator
FairSpec == Spec /\ WF_vars(Next)

-----------------------------------------------------------------------------
(* The history of a run, read from the log *)

Entries == 1..Len(log)

\* the positions of the log where command c was executed
Cmds(c) == {k \in Entries : log[k].cmd = c}

\* the positions of the merge commands; the first one, when there is one
Merges == Cmds("merge")
FirstMerge == CHOOSE k \in Merges : \A j \in Merges : k <= j

\* the steps of the update path in the order _update_repo calls them; the
\* handler of the merge belongs to _pull_and_resolve_conflicts
StepRank(step) ==
    CASE step = "reset" -> 1
      [] step = "dirty" -> 2
      [] step = "save" -> 3
      [] step = "pull" -> 4
      [] step = "remedy" -> 4
      [] OTHER -> 0

\* the dirtiness check has returned a value to _update_repo
DirtinessKnown ==
    /\ \E k \in Cmds("status-porcelain") : log[k].rc = 0
    /\ pc /= "dirty_search"
CheckedDirty == DirtinessKnown /\ dirty
CheckedClean == DirtinessKnown /\ ~dirty

\* the save of local changes ran to its end
SaveCompleted == \E k \in Cmds("commit") : log[k].step = "save" /\ log[k].rc = 0

\* the loop over the deleted paths ran to its end: every path had its
\* existence check begun, and the last of them is over
ResetCompleted ==
    /\ \E k \in Cmds("status") : log[k].rc = 0
    /\ Cardinality({k \in Cmds("fetch") : log[k].step = "reset"}) = Len(deleted_files)
    /\ pc \notin {"status", "rd_fetch", "rd_catfile", "rd_restore"}

-----------------------------------------------------------------------------
\* C1: on an existing directory the steps run in the order reset deleted
\* files, dirtiness check, save local changes, pull-and-resolve; the save is
\* run if and only if the dirtiness check returned true; and a command of a
\* step is run only after the step before it is complete.
C1_StepsInOrder ==
    repo_exists =>
        /\ \A j, k \in Entries : j < k => StepRank(log[j].step) <= StepRank(log[k].step)
        /\ \A k \in Entries : StepRank(log[k].step) >= 1
        /\ \A k \in Entries : StepRank(log[k].step) >= 2 =>
               \E j \in 1..(k - 1) : log[j].cmd = "status" /\ log[j].rc = 0
        /\ (\E k \in Entries : StepRank(log[k].step) >= 2) =>
               Cardinality({k \in Cmds("fetch") : log[k].step = "reset"}) = Len(deleted_files)
        /\ \A k \in Entries : StepRank(log[k].step) >= 3 =>
               \E j \in 1..(k - 1) : log[j].cmd = "status-porcelain" /\ log[j].rc = 0
        /\ (\E k \in Entries : log[k].step = "save") => CheckedDirty
        /\ (\E k \in Entries : StepRank(log[k].step) = 4) => (CheckedDirty <=> SaveCompleted)
        /\ \A k \in Entries : StepRank(log[k].step) = 4 /\ dirty =>
               \E j \in 1..(k - 1) : /\ log[j].cmd = "commit"
                                     /\ log[j].step = "save"
                                     /\ log[j].rc = 0
        /\ (CheckedDirty /\ pc /= "failed") =>
               (pc = "save_checkout" \/ \E k \in Entries : log[k].step = "save")

\* a run that went through all four steps, on two deleted paths
C1_Witness ==
    /\ repo_exists
    /\ pc = "done"
    /\ Len(deleted_files) = 2
    /\ CheckedDirty
    /\ SaveCompleted

-----------------------------------------------------------------------------
\* C2, as claimed: when the dirtiness check classifies the tree as clean, no
\* checkpoint commit (git commit -m WIP) is executed in the run, whatever the
\* later commands return.
C2_CleanNeverCommits == CheckedClean => Cmds("commit") = {}

\* C2, amended: when the dirtiness check classifies the tree as clean, no
\* checkpoint commit is executed unless the first merge exits with the
\* conflict status 1; then the handler of the merge runs one checkpoint
\* commit, after that merge, and it is the only one of the run.
C2_CleanCommitsOnlyOnConflict ==
    CheckedClean =>
        /\ \A k \in Cmds("commit") :
               /\ Merges /= {}
               /\ FirstMerge < k
               /\ log[FirstMerge].rc = 1
        /\ Cardinality(Cmds("commit")) <= 1

\* a clean run that ended with the checkpoint commit of the merge handler
C2_Witness ==
    /\ CheckedClean
    /\ pc = "done"
    /\ Cmds("commit") /= {}

-----------------------------------------------------------------------------
\* C3: the merge is executed at most twice; a second merge only follows a
\* first merge that exited 1 and a checkpoint commit made after it; and when
\* the second merge fails, with any status, it is the last command of the
\* run, which is aborted.
C3_OneRemediation ==
    /\ Cardinality(Merges) <= 2
    /\ \A j, k \in Merges : j < k =>
           /\ log[j].rc = 1
           /\ \E c \in Cmds("commit") : j < c /\ c < k /\ log[c].rc = 0
           /\ log[k].rc /= 0 => /\ k = Len(log)
                                /\ pc = "failed"
                                /\ err.cmd = "merge"
                                /\ err.rc = log[k].rc

\* the second merge ended in a conflict again
C3_Witness ==
    /\ Cardinality(Merges) = 2
    /\ log[Len(log)].cmd = "merge"
    /\ log[Len(log)].rc = 1
    /\ pc = "failed"

-----------------------------------------------------------------------------
\* C4, as claimed: the only failures that do not abort the run are cat-file
\* exiting 128, the fetch of the existence check exiting 1 and the first
\* merge exiting 1; after any other nonzero exit no command is run and the
\* run has failed.
C4_Tolerated(k) ==
    \/ log[k].cmd = "cat-file" /\ log[k].rc = 128
    \/ log[k].cmd = "fetch" /\ log[k].step = "reset" /\ log[k].rc = 1
    \/ log[k].cmd = "merge" /\ k = FirstMerge /\ log[k].rc = 1

C4_OnlyThreeTolerances ==
    \A k \in Entries :
        (log[k].rc /= 0 /\ ~C4_Tolerated(k)) => (k = Len(log) /\ pc = "failed")

-----------------------------------------------------------------------------
\* what the handlers of the code let pass: status 128 of the three commands
\* of the loop over the deleted paths, status 1 of the fetch of that loop,
\* status 1 of the first merge
Handled(k) ==
    \/ log[k].step = "reset" /\ log[k].cmd \in {"fetch", "cat-file", "restore"}
                             /\ log[k].rc = 128
    \/ log[k].step = "reset" /\ log[k].cmd = "fetch" /\ log[k].rc = 1
    \/ log[k].cmd = "merge" /\ k = FirstMerge /\ log[k].rc = 1

Fatal(k) == log[k].rc /= 0 /\ ~Handled(k)

\* C5: the run is DONE only if no command ended in a fatal error; a fatal
\* error is the last command of the run (nothing is run after it: no
\* rollback, no retry, no later step), and the run ends with that error.
C5_FatalIsLast ==
    /\ pc = "done" => err = NoError /\ \A k \in Entries : ~Fatal(k)
    /\ \A k \in Entries : Fatal(k) =>
           /\ k = Len(log)
           /\ pc = "failed"
           /\ err = [cmd |-> log[k].cmd, arg |-> log[k].arg, rc |-> log[k].rc]
    /\ pc = "failed" => log /= <<>> /\ Fatal(Len(log))

\* a run aborted in the middle of the save of local changes
C5_Witness ==
    /\ pc = "failed"
    /\ log[Len(log)].cmd = "commit"
    /\ log[Len(log)].step = "save"
    /\ Len(deleted_files) = 2

-----------------------------------------------------------------------------
\* C6: when the first merge exits with a nonzero status other than 1, the
\* run is aborted with an error that carries the merge command and that
\* status, and the merge is the last command: no checkpoint commit and no
\* second merge follow it.
C6_OtherMergeFailureIsFatal ==
    (Merges /= {} /\ log[FirstMerge].rc \notin {0, 1}) =>
        /\ FirstMerge = Len(log)
        /\ pc = "failed"
        /\ err = [cmd |-> "merge", arg |-> "origin/branch", rc |-> log[FirstMerge].rc]

\* the first merge exited with git's fatal status
C6_Witness ==
    /\ Merges /= {}
    /\ log[FirstMerge].rc = 128
    /\ pc = "failed"

-----------------------------------------------------------------------------
\* the position in deleted_files of the path of log entry k
PathIndex(k) == CHOOSE i \in 1..Len(deleted_files) : deleted_files[i] = log[k].arg

\* C7: a restore (git checkout -- path) is only run right after the
\* existence check of the same path exited 0; after an existence check that
\* exits 128 the path is not restored, no error is raised, and the run goes
\* on with the next deleted path or, after the last one, with the dirtiness
\* check.
C7_SkipAbsentUpstream ==
    /\ \A k \in Cmds("restore") :
           /\ k > 1
           /\ log[k - 1].cmd = "cat-file"
           /\ log[k - 1].arg = log[k].arg
           /\ log[k - 1].rc = 0
    /\ \A k \in Cmds("cat-file") : log[k].rc = 128 =>
           /\ \A j \in Cmds("restore") : j > k => log[j].arg /= log[k].arg
           /\ k = Len(log) =>
                  /\ err = NoError
                  /\ IF PathIndex(k) < Len(deleted_files)
                     THEN pc = "rd_fetch" /\ idx = PathIndex(k) + 1
                     ELSE pc = "dirty_status"
           /\ k < Len(log) =>
                  IF PathIndex(k) < Len(deleted_files)
                  THEN /\ log[k + 1].cmd = "fetch"
                       /\ log[k + 1].arg = deleted_files[PathIndex(k) + 1]
                  ELSE log[k + 1].cmd = "status-porcelain"

\* the first of two deleted paths was absent upstream, the second one was
\* restored, and the run went on to its end
C7_Witness ==
    /\ pc = "done"
    /\ Len(deleted_files) = 2
    /\ \E k \in Cmds("cat-file") : log[k].rc = 128 /\ log[k].arg = deleted_files[1]
    /\ \E k \in Cmds("restore") : log[k].rc = 0 /\ log[k].arg = deleted_files[2]

-----------------------------------------------------------------------------
\* C8: when the directory does not exist the run executes git clone and,
\* only after the clone succeeded, git checkout of the branch, and nothing
\* else; it is DONE iff both succeeded.  When the directory exists no clone
\* is executed and the run starts the update path.
C8_CloneOrUpdate ==
    /\ ~repo_exists =>
           /\ Len(log) <= 2
           /\ Len(log) >= 1 => log[1].cmd = "clone"
           /\ Len(log) = 2 => /\ log[1].rc = 0
                              /\ log[2].cmd = "checkout"
                              /\ log[2].arg = "branch"
           /\ pc = "done" <=> (Len(log) = 2 /\ log[1].rc = 0 /\ log[2].rc = 0)
           /\ (Len(log) = 1 /\ log[1].rc = 0) => pc = "init_checkout"
    /\ repo_exists =>
           /\ Cmds("clone") = {}
           /\ \A k \in Entries : log[k].step /= "init"
           /\ Len(log) >= 1 => log[1].cmd = "status" /\ log[1].step = "reset"
           /\ pc \notin {"clone", "init_checkout"}

\* the directory did not exist; clone and checkout succeeded
C8_Witness ==
    /\ ~repo_exists
    /\ pc = "done"
    /\ Len(log) = 2

-----------------------------------------------------------------------------
(* The entries of a porcelain output, read back from its text *)

\* every entry is a line of five characters: X, Y, a space, the path, \n
EntryWidth == Len(EntryLine(UntrackedCode))
EntryCount(s) == Len(s) \div EntryWidth
EntryX(s, k) == s[(k - 1) * EntryWidth + 1]
EntryY(s, k) == s[(k - 1) * EntryWidth + 2]

\* the entry is an untracked file
IsUntracked(s, k) == EntryX(s, k) = "?" /\ EntryY(s, k) = "?"

\* the entry is a tracked file with a modification staged in the index (X)
\* or not staged (Y)
IsModified(s, k) == EntryX(s, k) = "M" \/ EntryY(s, k) = "M"

\* C9, as claimed: repo_is_dirty returns true for every porcelain output with
\* at least one entry of a tracked file that has a staged or an unstaged
\* modification, whatever the two status letters of the entry, and false for
\* every output whose entries are all untracked files.
C9_DirtyIffModified ==
    [][pc = "dirty_search" =>
         /\ (\E k \in 1..EntryCount(output) : IsModified(output, k)) => dirty'
         /\ (\A k \in 1..EntryCount(output) : IsUntracked(output, k)) => ~dirty'
      ]_vars

-----------------------------------------------------------------------------
\* C10, as claimed: a run on a working tree in which a file is modified
\* locally and deleted on the remote branch completes (it does not end in an
\* error), and the working tree then holds the locally modified version.
C10_LocalVersionKept ==
    tree \in TreeStates =>
        /\ pc /= "failed"
        /\ pc = "done" => TreeHasLocalVersion /\ tree = "merged"

-----------------------------------------------------------------------------
\* the deleted paths the existence check found at the remote branch tip
FoundUpstream == {log[k].arg : k \in {j \in Cmds("cat-file") : log[j].rc = 0}}

\* the paths the restore brought back
Restored == {log[k].arg : k \in {j \in Cmds("restore") : log[j].rc = 0}}

\* C11, as claimed: every file that is deleted locally, staged or not, and
\* still present at the remote branch tip is restored by the run: the run
\* completes, the restore of the file has succeeded and the merge has
\* brought the working tree to the upstream content.
C11_DeletedFilesRestored ==
    tree \in DeletionStates =>
        /\ pc /= "failed"
        /\ pc = "done" => /\ FoundUpstream \subseteq Restored
                          /\ \E k \in Merges : log[k].rc = 0

-----------------------------------------------------------------------------
\* C12, as claimed: a run on a dirty working tree whose local changes and
\* remote changes touch disjoint files completes, and the working tree then
\* holds the local changes (no command of the run discards them) and the
\* remote changes (the merge has succeeded).
C12_DisjointChangesMerged ==
    tree \in DisjointStates =>
        /\ pc /= "failed"
        /\ pc = "done" => \E k \in Merges : log[k].rc = 0

-----------------------------------------------------------------------------
\* C13: a run that follows a completed run on a clean tree, with the remote
\* branch unchanged, ends without any error, executes no checkpoint commit,
\* and runs no command that moves the branch tip or changes the working
\* tree: nothing is restored, added or committed, and its one merge finds
\* nothing to do.
C13_SecondRunChangesNothing ==
    tree = "synced" =>
        /\ pc /= "failed"
        /\ err = NoError
        /\ \A k \in Entries : log[k].rc = 0
        /\ Cmds("commit") = {}
        /\ Cmds("add") = {}
        /\ Cmds("restore") = {}
        /\ Cardinality(Merges) <= 1
        /\ pc = "done" => Cardinality(Merges) = 1

\* the second run has completed, with an untracked file in the tree
C13_Witness ==
    /\ tree = "synced"
    /\ pc = "done"
    /\ \E k \in Cmds("status-porcelain") : log[k].rc = 0
    /\ log[Len(log)].cmd = "merge"

-----------------------------------------------------------------------------
\* the commands that change the working tree or the branch
Mutating(k) ==
    /\ log[k].cmd \in {"restore", "commit", "merge"}
    /\ log[k].cmd = "restore" => log[k].rc = 0

\* the commands of the loop over the deleted paths: each acts on a path of
\* the list read from git status
LoopCmds == {k \in Entries : log[k].step = "reset" /\ log[k].cmd /= "status"}

\* C14, as claimed: every decision that depends on the status of the working
\* tree uses a snapshot taken after the most recent tree-mutating command:
\* no restore, commit or merge lies between the git status that listed the
\* deleted paths and a command of the loop that acts on one of them, nor
\* between the porcelain status and the first command that follows it.
C14_NoSnapshotAcrossMutation ==
    /\ \A k \in LoopCmds : \A s \in Cmds("status") :
           ~ \E j \in (s + 1)..(k - 1) : Mutating(j)
    /\ \A k \in Entries : StepRank(log[k].step) >= 3 =>
           \E p \in Cmds("status-porcelain") :
               p < k /\ \A j \in 1..(k - 1) : (Mutating(j) /\ log[j].step = "reset") => j < p

\* C14, amended: the decision whether to save local changes uses a porcelain
\* status taken after the last restore and before any commit or merge of the
\* run, and it is taken once; the list of deleted paths is taken once, before
\* any tree-mutating command, and is reused for every path of the loop.
C14_FreshDirtinessOneList ==
    /\ \A k \in Entries : StepRank(log[k].step) >= 3 =>
           \E p \in Cmds("status-porcelain") :
               /\ p < k
               /\ log[p].rc = 0
               /\ \A j \in Cmds("restore") : j < p
               /\ \A j \in 1..p : log[j].cmd \notin {"commit", "merge", "add"}
    /\ Cardinality(Cmds("status-porcelain")) <= 1
    /\ Cardinality(Cmds("status")) <= 1
    /\ \A k \in LoopCmds : \E s \in Cmds("status") :
           /\ s < k
           /\ log[s].rc = 0
           /\ \A j \in 1..s : ~Mutating(j)
           /\ log[k].arg \in {deleted_files[i] : i \in 1..Len(deleted_files)}

\* two deleted paths were restored from one list, then the tree was found
\* dirty and saved, and the run completed
C14_Witness ==
    /\ pc = "done"
    /\ Len(deleted_files) = 2
    /\ Cardinality({k \in Cmds("restore") : log[k].rc = 0}) = 2
    /\ CheckedDirty
    /\ SaveCompleted

-----------------------------------------------------------------------------
\* the commands of _pull_and_resolve_conflicts before its first merge
PullPrelude == {k \in Entries : log[k].step = "pull" /\ log[k].cmd \in {"checkout", "fetch"}}

\* C15: _pull_and_resolve_conflicts runs checkout of the branch, fetch,
\* merge, in this order; when the checkout or the fetch exits nonzero, with
\* any status, status 1 included, it is the last command of the run, which
\* is aborted with its error: no merge is executed.
C15_CheckoutFetchMerge ==
    /\ Merges /= {} =>
           /\ FirstMerge >= 3
           /\ log[FirstMerge - 1] =
                  [step |-> "pull", cmd |-> "fetch", arg |-> "", rc |-> 0]
           /\ log[FirstMerge - 2] =
                  [step |-> "pull", cmd |-> "checkout", arg |-> "branch", rc |-> 0]
    /\ Cardinality(PullPrelude) <= 2
    /\ \A k \in PullPrelude :
           /\ log[k].cmd = "fetch" => k - 1 \in PullPrelude /\ log[k - 1].cmd = "checkout"
           /\ log[k].rc /= 0 =>
                  /\ k = Len(log)
                  /\ pc = "failed"
                  /\ err = [cmd |-> log[k].cmd, arg |-> log[k].arg, rc |-> log[k].rc]
                  /\ Merges = {}

\* the fetch of _pull_and_resolve_conflicts exited 1
C15_Witness ==
    /\ pc = "failed"
    /\ log[Len(log)] = [step |-> "pull", cmd |-> "fetch", arg |-> "", rc |-> 1]

-----------------------------------------------------------------------------
\* C16: when the fetch of the existence check exits 1 the failure is ignored:
\* no error leaves the run, the cat-file of the same path is the next
\* command, and its exit status alone decides: 0, the path is restored next;
\* 128, the path is not restored; any other status aborts the run.
C16_BenignFetchIgnored ==
    \A k \in Cmds("fetch") : (log[k].step = "reset" /\ log[k].rc = 1) =>
        /\ k = Len(log) => pc = "rd_catfile" /\ err = NoError
        /\ k < Len(log) =>
               /\ log[k + 1].cmd = "cat-file"
               /\ log[k + 1].arg = log[k].arg
               /\ log[k + 1].rc = 0 =>
                      /\ k + 1 = Len(log) => pc = "rd_restore" /\ err = NoError
                      /\ k + 1 < Len(log) => /\ log[k + 2].cmd = "restore"
                                             /\ log[k + 2].arg = log[k].arg
               /\ log[k + 1].rc = 128 =>
                      /\ \A j \in Cmds("restore") : log[j].arg /= log[k].arg
                      /\ k + 1 = Len(log) => err = NoError
               /\ log[k + 1].rc \notin {0, 128} =>
                      /\ k + 1 = Len(log)
                      /\ pc = "failed"
                      /\ err.cmd = "cat-file"

\* the fetch exited 1, the path was found upstream and restored, and the
\* run completed
C16_Witness ==
    /\ pc = "done"
    /\ \E k \in Cmds("fetch") :
           /\ log[k].step = "reset"
           /\ log[k].rc = 1
           /\ log[k + 1].cmd = "cat-file" /\ log[k + 1].rc = 0
           /\ log[k + 2].cmd = "restore" /\ log[k + 2].rc = 0

-----------------------------------------------------------------------------
\* the commands of the checkpoint commit the handler of the merge makes
Remedy == {k \in Entries : log[k].step = "remedy"}

\* C17: after a first merge that exits 1, a command of the remediation
\* checkpoint commit (git add -A, the two git config, git commit) that exits
\* nonzero is the last command of the run, which is aborted with the error
\* of that command, and the merge is not run again; a second merge is only
\* run right after the four commands have all exited 0.
C17_RemediationFailureIsFatal ==
    /\ \A k \in Remedy :
           /\ Merges /= {} /\ FirstMerge < k /\ log[FirstMerge].rc = 1
           /\ log[k].rc /= 0 =>
                  /\ k = Len(log)
                  /\ pc = "failed"
                  /\ err = [cmd |-> log[k].cmd, arg |-> log[k].arg, rc |-> log[k].rc]
                  /\ Cardinality(Merges) = 1
    /\ \A k \in Merges : k /= FirstMerge =>
           /\ k = FirstMerge + 5
           /\ \A j \in (FirstMerge + 1)..(k - 1) : j \in Remedy /\ log[j].rc = 0
           /\ log[k - 4].cmd = "add"
           /\ log[k - 3].cmd = "config" /\ log[k - 3].arg = "user.email"
           /\ log[k - 2].cmd = "config" /\ log[k - 2].arg = "user.name"
           /\ log[k - 1].cmd = "commit"

\* the second git config of the remediation failed
C17_Witness ==
    /\ pc = "failed"
    /\ log[Len(log)].step = "remedy"
    /\ log[Len(log)].cmd = "config"
    /\ log[Len(log)].arg = "user.name"

-----------------------------------------------------------------------------
\* C18: when execute_cmd has ended, the lines it yielded after the echo
\* line, concatenated in order, are the text of the whole byte sequence the
\* command wrote: no byte is dropped or duplicated, output that does not
\* end with a line terminator included.
C18_LinesAreWholeOutput ==
    pc \in {"exec_done", "exec_raised"} =>
        Flatten(proc.lines) = flush(proc.written)

-----------------------------------------------------------------------------
\* the positions of the log where command c was run on path f
CmdsOn(c, f) == {k \in Cmds(c) : log[k].arg = f}

\* the bounds on the commands of one run
BoundedWork ==
    /\ \A i \in 1..Len(PathList) :
           /\ Cardinality(CmdsOn("cat-file", PathList[i])) <= 1
           /\ Cardinality(CmdsOn("restore", PathList[i])) <= 1
           /\ Cardinality({k \in CmdsOn("fetch", PathList[i]) : log[k].step = "reset"}) <= 1
    /\ Cardinality(Cmds("commit")) <= 2
    /\ Cardinality(Merges) <= 2

\* C19: when every command terminates and the output is consumed, every run
\* eventually ends, in DONE or in a fatal error, and it has no unbounded
\* loop or retry: at most one existence check and one restore per deleted
\* path, at most two checkpoint commits, at most two merges.
C19_RunTerminates ==
    /\ <>(pc \in {"done", "failed"})
    /\ []BoundedWork

\* a completed run that reached every bound: each deleted path checked and
\* restored, two checkpoint commits, two merges
C19_Witness ==
    /\ pc = "done"
    /\ Len(deleted_files) = MaxDeleted
    /\ \A i \in 1..Len(deleted_files) :
           /\ Cardinality(CmdsOn("cat-file", deleted_files[i])) = 1
           /\ Cardinality(CmdsOn("restore", deleted_files[i])) = 1
    /\ Cardinality(Cmds("commit")) = 2
    /\ Cardinality(Merges) = 2

=============================================================================
